---------------------------- MODULE Spec2Model ----------------------------
(***************************************************************************)
(* The two stream players of krelez (chipend): ChiptunePlayer, which polls *)
(* GET {endpoint}/metadata every 5 s while playing, and VaporPlayer, which *)
(* listens on an EventSource {endpoint}/live while playing.  Both are React*)
(* function components; one step of the model is one handler (an event, a  *)
(* timer callback, a promise continuation) together with the re-render and *)
(* the effects it triggers.                                                *)
(***************************************************************************)
EXTENDS Integers, Sequences, FiniteSets, Bags

VARIABLES
    transport,       \* "pull" (ChiptunePlayer) or "push" (VaporPlayer)
    mounted,         \* the component is mounted (FALSE after unmount or a crashed mount)
    isPlaying,       \* useState(false)
    volume,          \* useState(initializer): a JS number
    isMuted,         \* useState(false)
    currentTrack,    \* useState(null): <<>> or <<track>>
    playbackTime,    \* useState(0)
    trackHistory,    \* useState([]): newest first
    lastTrackRef,    \* useRef(null): <<>> or <<trackId>>
    timerRef,        \* number of 1 s intervals of the timer effect that are running
    pollingInterval, \* number of 5 s intervals of the polling effect that are running
    openSources,     \* number of EventSource connections that are open
    fetches,         \* bag of metadata fetches in flight, each with its closure
    eventSourceRef,  \* <<>> or <<the open EventSource with its handler's closure>>
    initialFetch,    \* "pending" or "done": the mount-time metadata fetch
    audio,           \* the audio element: "stopped", "starting" or "playing"
    audioVolume,     \* audio.volume, in hundredths
    autoplay,        \* the mount-time play() promise: pending, abort (rejection queued) or done
    storage,         \* localStorage[<player>Volume]: <<>> or <<string>>
    upstream,        \* <<>> or <<the track the metadata endpoint reported last>>
    audioEvent,      \* history: "refused" / "ended" when that is what the audio element did last
    sseErrored,      \* history: onerror closed the push channel since it was opened
    superseded,      \* history: the tracks replaced as currentTrack, newest first
    route,           \* the status route serving a request: "vapor", "chip", or "none"
    icestats,        \* the upstream status document the route fetched
    reply            \* <<>> while the route runs, then <<what the request got>>

vars == <<route, icestats, reply, transport, mounted, isPlaying, volume, isMuted, currentTrack,
          playbackTime, trackHistory, lastTrackRef, timerRef, pollingInterval,
          openSources, fetches, eventSourceRef, initialFetch, audio, audioVolume, autoplay,
          storage, upstream, audioEvent, sseErrored,
          superseded>>

playerVars == <<transport, mounted, isPlaying, volume, isMuted, currentTrack,
                playbackTime, trackHistory, lastTrackRef, timerRef, pollingInterval,
                openSources, fetches, eventSourceRef, initialFetch, audio,
                audioVolume, autoplay, storage, upstream, audioEvent, sseErrored,
                superseded>>

----------------------------------------------------------------------------
(* Bounds of the model *)

MaxTime == 2
MaxFetch == 2
MaxSources == 3

----------------------------------------------------------------------------
(* Values *)

None == <<>>
Some(x) == <<x>>

Track(a, t) == [artist |-> a, title |-> t]

\* The tracks the broadcast alternates between
Tracks == {Track("a", "x"), Track("b", "y")}

\* A payload of a channel that is off air: no artist.
OffAir == Track("", "x")

\* Variant of ValidPayload: the title alone decides
ValidPayloadTitleOnly(data) == data.title # ""

\* data.artist && data.title
ValidPayload(data) == data.artist # "" /\ data.title # ""

\* `${data.artist}-${data.title}`
TrackId(data) == data.artist \o "-" \o data.title

\* JS numbers: a volume in hundredths, or NaN
Num(v) == [nan |-> FALSE, v |-> v]
NaN == [nan |-> TRUE, v |-> 0]
DefaultVolume == Num(70)

\* What localStorage may hold under the player's key at mount
StoredValues == {None, Some("0.4"), Some("abc"), Some("5")}

\* The positions of the range input (min 0, max 1, step 0.01) the model uses
SliderValues == {"0.4"}

\* parseFloat on the strings of the model
ParseFloat(s) ==
    CASE s = "0" -> Num(0)
      [] s = "0.4" -> Num(40)
      [] s = "0.7" -> Num(70)
      [] s = "5" -> Num(500)
      [] OTHER -> NaN

\* Number.prototype.toString on the numbers of the model
NumberToString(n) ==
    IF n.nan THEN "NaN"
    ELSE CASE n.v = 0 -> "0"
           [] n.v = 40 -> "0.4"
           [] n.v = 70 -> "0.7"
           [] n.v = 500 -> "5"
           [] OTHER -> "?"

\* savedVolume ? parseFloat(savedVolume) : 0.7
VolumeInit(saved) ==
    IF saved # None /\ saved[1] # "" THEN ParseFloat(saved[1]) ELSE DefaultVolume

\* HTMLMediaElement.volume accepts a finite number in [0, 1] and throws otherwise
AudioAccepts(n) == ~n.nan /\ n.v >= 0 /\ n.v <= 100

\* audioRef.current.volume = isMuted ? 0 : volume
OutputVolume(muted, vol) == IF muted THEN Num(0) ELSE vol

----------------------------------------------------------------------------
(* The history ledger and the change detector *)

HistoryCapacity == 3

\* Length of the log of superseded tracks kept for the history claims
MaxLog == HistoryCapacity + 1

\* {title, artist, startedAt}; startedAt (Date.now() - 1000) is display only
Entry(t) == [title |-> t.title, artist |-> t.artist]

\* seq.slice(0, n)
Slice(seq, n) == SubSeq(seq, 1, IF Len(seq) < n THEN Len(seq) ELSE n)

\* Variant of Archive: the slice left out
ArchiveUnbounded(t, hist) == <<Entry(t)>> \o hist

\* [{...closure's currentTrack}, ...prev].slice(0, 3)
Archive(t, hist) == Slice(<<Entry(t)>> \o hist, HistoryCapacity)

\* Variant of IsNewTrack: the comparison with lastTrackRef left out
IsNewTrackNoRef(data) == ValidPayload(data)

\* lastTrackRef.current !== trackId, for a payload with artist and title
IsNewTrack(data) == ValidPayload(data) /\ lastTrackRef # Some(TrackId(data))

\* The log of the tracks that stopped being currentTrack (not program state)
Supersede(data) ==
    IF currentTrack # None /\ currentTrack[1] # data
    THEN Slice(<<currentTrack[1]>> \o superseded, MaxLog)
    ELSE superseded

\* Variant of UpdateTrack: lastTrackRef.current is not updated
UpdateTrackKeepsRef(data, closureTrack) ==
    IF IsNewTrack(data)
    THEN /\ trackHistory' = IF closureTrack # None
                            THEN Archive(closureTrack[1], trackHistory)
                            ELSE trackHistory
         /\ lastTrackRef' = lastTrackRef
         /\ currentTrack' = Some(data)
         /\ superseded' = Supersede(data)
    ELSE UNCHANGED <<trackHistory, lastTrackRef, currentTrack, superseded>>

\* The body of fetchAndUpdateTrack / eventSource.onmessage once the payload
\* is parsed; closureTrack is the currentTrack the handler closed over.
UpdateTrack(data, closureTrack) ==
    IF IsNewTrack(data)
    THEN /\ trackHistory' = IF closureTrack # None
                            THEN Archive(closureTrack[1], trackHistory)
                            ELSE trackHistory
         /\ lastTrackRef' = Some(TrackId(data))
         /\ currentTrack' = Some(data)
         /\ superseded' = Supersede(data)
    ELSE UNCHANGED <<trackHistory, lastTrackRef, currentTrack, superseded>>

----------------------------------------------------------------------------
(* Effects, run after the handler of a step has set the state *)

NewFetch(ct) == [currentTrack |-> ct, isUnmounted |-> FALSE]

AddFetch(fl, f) == fl (+) SetToBag({f})

RemoveFetch(fl, f) == fl (-) SetToBag({f})

\* The polling effect's cleanup: isUnmounted = true in the closure every fetch
\* of that effect instance shares
MarkUnmounted(fl) ==
    IF fl = EmptyBag THEN EmptyBag ELSE
    [k \in {[f EXCEPT !.isUnmounted = TRUE] : f \in BagToSet(fl)} |->
        CopiesIn(k, fl) + CopiesIn([k EXCEPT !.isUnmounted = FALSE], fl)]

\* setCurrentTrack always stores a fresh object, so the dependency
\* currentTrack changes whenever it is called (trackSet).
SubscriptionDepsChanged(trackSet) == isPlaying' # isPlaying \/ trackSet

\* Variant of Released: releasing counts even when no handle is live
ReleasedAgain(n) == n - 1

\* clearInterval(id) / close() on the handle a ref or closure holds, if any
Released(n) == IF n > 0 THEN n - 1 ELSE 0

\* setInterval(...) / new EventSource(...) when the effect body runs with isPlaying
Acquired(n, playing) == IF playing THEN n + 1 ELSE n

\* Variant of PollingEffect: the cleanup does not clear the interval
PollingEffectNoClear(fl, trackSet) ==
    IF transport = "pull" /\ SubscriptionDepsChanged(trackSet)
    THEN /\ fetches' = IF isPlaying'
                       THEN AddFetch(MarkUnmounted(fl), NewFetch(currentTrack'))
                       ELSE MarkUnmounted(fl)
         /\ pollingInterval' = Acquired(pollingInterval, isPlaying')
    ELSE /\ fetches' = fl
         /\ pollingInterval' = pollingInterval

\* Variant of PollingEffect: the immediate fetch without the setInterval
PollingEffectFetchOnce(fl, trackSet) ==
    IF transport = "pull" /\ SubscriptionDepsChanged(trackSet)
    THEN /\ fetches' = IF isPlaying'
                       THEN AddFetch(MarkUnmounted(fl), NewFetch(currentTrack'))
                       ELSE MarkUnmounted(fl)
         /\ pollingInterval' = Released(pollingInterval)
    ELSE /\ fetches' = fl
         /\ pollingInterval' = pollingInterval

\* ChiptunePlayer: useEffect(..., [isPlaying, endpoint, currentTrack]);
\* the cleanup of the previous run, then the body
PollingEffect(fl, trackSet) ==
    IF transport = "pull" /\ SubscriptionDepsChanged(trackSet)
    THEN /\ fetches' = IF isPlaying'
                       THEN AddFetch(MarkUnmounted(fl), NewFetch(currentTrack'))
                       ELSE MarkUnmounted(fl)
         /\ pollingInterval' = Acquired(Released(pollingInterval), isPlaying')
    ELSE /\ fetches' = fl
         /\ pollingInterval' = pollingInterval

\* Variant of SSEEffect: the channel in eventSourceRef is not closed before
\* a new one is opened
SSEEffectNoClose(es, open, errored, trackSet) ==
    IF transport = "push" /\ SubscriptionDepsChanged(trackSet)
    THEN /\ eventSourceRef' = IF isPlaying'
                              THEN Some([currentTrack |-> currentTrack'])
                              ELSE None
         /\ openSources' = Acquired(open, isPlaying')
         /\ sseErrored' = FALSE
    ELSE /\ eventSourceRef' = es
         /\ openSources' = open
         /\ sseErrored' = errored

\* VaporPlayer: useEffect(setupSSE, [isPlaying, endpoint, currentTrack]);
\* the cleanup closes eventSourceRef.current, setupSSE opens a new one
SSEEffect(es, open, errored, trackSet) ==
    IF transport = "push" /\ SubscriptionDepsChanged(trackSet)
    THEN /\ eventSourceRef' = IF isPlaying'
                              THEN Some([currentTrack |-> currentTrack'])
                              ELSE None
         /\ openSources' = Acquired(IF es # None THEN Released(open) ELSE open, isPlaying')
         /\ sseErrored' = FALSE
    ELSE /\ eventSourceRef' = es
         /\ openSources' = open
         /\ sseErrored' = errored

\* Variant of TimerEffect: a second interval is set while one is running
TimerEffectTwice ==
    timerRef' = IF isPlaying' # isPlaying
                THEN Acquired(Acquired(Released(timerRef), isPlaying'), isPlaying')
                ELSE timerRef

\* Variant of TimerEffect: the interval is never cleared
TimerEffectNoClear ==
    timerRef' = IF isPlaying' # isPlaying
                THEN Acquired(timerRef, isPlaying')
                ELSE timerRef

\* useEffect(..., [isPlaying]): the playback timer; the cleanup clears
\* timerRef.current, the body sets a new interval while playing
TimerEffect ==
    timerRef' = IF isPlaying' # isPlaying
                THEN Acquired(Released(timerRef), isPlaying')
                ELSE timerRef

\* The localStorage key of each player
StorageKey(t) == IF t = "pull" THEN "chiptunePlayerVolume" ELSE "vaporPlayerVolume"

\* Variant of StorageEffect: nothing is written while muted
StorageEffectUnlessMuted ==
    storage' = IF volume' # volume /\ ~isMuted'
               THEN Some(NumberToString(volume'))
               ELSE storage

\* useEffect(..., [volume]): localStorage.setItem(key, volume.toString())
StorageEffect ==
    storage' = IF volume' # volume THEN Some(NumberToString(volume')) ELSE storage

\* Variant of VolumeEffect: isMuted missing from the dependencies
VolumeEffectVolumeOnly ==
    audioVolume' = IF volume' # volume
                   THEN OutputVolume(isMuted', volume')
                   ELSE audioVolume

\* useEffect(..., [volume, isMuted]): audio.volume = isMuted ? 0 : volume
VolumeEffect ==
    audioVolume' = IF volume' # volume \/ isMuted' # isMuted
                   THEN OutputVolume(isMuted', volume')
                   ELSE audioVolume

\* The re-render after a handler: every effect whose dependencies changed
Commit(fl, es, open, errored, trackSet) ==
    /\ StorageEffect
    /\ VolumeEffect
    /\ TimerEffect
    /\ PollingEffect(fl, trackSet)
    /\ SSEEffect(es, open, errored, trackSet)
    /\ BagCardinality(fetches') <= MaxFetch

----------------------------------------------------------------------------
(* The audio element (browser side) and the play/pause handlers *)

\* audioRef.current.play(): playback is requested; the returned promise
\* stays pending until playback starts or is refused
AudioPlay ==
    /\ audio' = IF audio = "stopped" THEN "starting" ELSE audio
    /\ autoplay' = autoplay

\* audioRef.current.pause(): pending play() promises reject with AbortError
AudioPause ==
    /\ audio' = "stopped"
    /\ autoplay' = IF autoplay = "pending" THEN "abort" ELSE autoplay

\* Playback starts and the browser resolves the pending play() promises;
\* startPlayback continues after its await in the same turn with
\* setIsPlaying(true).  The promise of togglePlayPause has no continuation
\* on success.
AudioStarts ==
    /\ mounted /\ audio = "starting"
    /\ audio' = "playing"
    /\ autoplay' = IF autoplay = "pending" THEN "done" ELSE autoplay
    /\ isPlaying' = IF autoplay = "pending" THEN TRUE ELSE isPlaying
    /\ UNCHANGED <<route, icestats, reply, transport, mounted, volume, isMuted,
                   currentTrack, playbackTime, trackHistory, lastTrackRef,
                   initialFetch, upstream, audioEvent, superseded>>
    /\ Commit(fetches, eventSourceRef, openSources, sseErrored, FALSE)

\* The browser refuses to start (autoplay policy, no playable source) and
\* rejects the pending play() promises.  startPlayback's catch runs
\* setIsPlaying(false); the .catch of togglePlayPause only logs.
AudioRefuses ==
    /\ mounted /\ audio = "starting"
    /\ audio' = "stopped"
    /\ autoplay' = IF autoplay = "pending" THEN "done" ELSE autoplay
    /\ isPlaying' = IF autoplay = "pending" THEN FALSE ELSE isPlaying
    /\ audioEvent' = "refused"
    /\ UNCHANGED <<route, icestats, reply, transport, mounted, volume, isMuted, currentTrack, playbackTime,
                   trackHistory, lastTrackRef, initialFetch, upstream, superseded>>
    /\ Commit(fetches, eventSourceRef, openSources, sseErrored, FALSE)

\* pause() queues the AbortError rejection of the pending play() promise;
\* when it is delivered, the catch of startPlayback runs setIsPlaying(false)
AutoplaySettled ==
    /\ mounted /\ autoplay = "abort"
    /\ autoplay' = "done"
    /\ isPlaying' = FALSE
    /\ UNCHANGED <<route, icestats, reply, transport, mounted, volume, isMuted,
                   currentTrack, playbackTime, trackHistory, lastTrackRef,
                   initialFetch, audio, upstream, audioEvent, superseded>>
    /\ Commit(fetches, eventSourceRef, openSources, sseErrored, FALSE)

TogglePlayPause ==
    /\ mounted
    /\ IF isPlaying THEN AudioPause ELSE AudioPlay
    /\ isPlaying' = ~isPlaying
    /\ audioEvent' = "none"
    /\ UNCHANGED <<route, icestats, reply, transport, mounted, volume, isMuted, currentTrack, playbackTime,
                   trackHistory, lastTrackRef, initialFetch, upstream, superseded>>
    /\ Commit(fetches, eventSourceRef, openSources, sseErrored, FALSE)

\* Variant of StopHandler: setPlaybackTime(0) left out
StopHandlerKeepsTime ==
    /\ mounted /\ audio = "playing"
    /\ audio' = "stopped"
    /\ isPlaying' = FALSE
    /\ audioEvent' = "ended"
    /\ UNCHANGED <<route, icestats, reply, transport, mounted, volume, isMuted, currentTrack, playbackTime,
                   trackHistory, lastTrackRef, initialFetch, autoplay, upstream,
                   superseded>>
    /\ Commit(fetches, eventSourceRef, openSources, sseErrored, FALSE)

\* onEnded / onError of the audio element: setIsPlaying(false); setPlaybackTime(0)
StopHandler ==
    /\ mounted /\ audio = "playing"
    /\ audio' = "stopped"
    /\ isPlaying' = FALSE
    /\ playbackTime' = 0
    /\ audioEvent' = "ended"
    /\ UNCHANGED <<route, icestats, reply, transport, mounted, volume, isMuted, currentTrack, trackHistory,
                   lastTrackRef, initialFetch, autoplay, upstream, superseded>>
    /\ Commit(fetches, eventSourceRef, openSources, sseErrored, FALSE)

OnEnded == StopHandler

OnError == StopHandler

ToggleMute ==
    /\ mounted
    /\ isMuted' = ~isMuted
    /\ UNCHANGED <<route, icestats, reply, transport, mounted, isPlaying, volume, currentTrack, playbackTime,
                   trackHistory, lastTrackRef, initialFetch, audio, autoplay,
                   upstream, audioEvent, superseded>>
    /\ Commit(fetches, eventSourceRef, openSources, sseErrored, FALSE)

HandleVolumeChange(value) ==
    /\ mounted
    /\ volume' = ParseFloat(value)
    /\ UNCHANGED <<route, icestats, reply, transport, mounted, isPlaying, isMuted, currentTrack, playbackTime,
                   trackHistory, lastTrackRef, initialFetch, audio, autoplay,
                   upstream, audioEvent, superseded>>
    /\ Commit(fetches, eventSourceRef, openSources, sseErrored, FALSE)

\* The 1 s interval callback: setPlaybackTime(prev => prev + 1)
Tick ==
    /\ mounted /\ timerRef > 0 /\ playbackTime < MaxTime
    /\ playbackTime' = playbackTime + 1
    /\ UNCHANGED <<route, icestats, reply, transport, mounted, isPlaying, volume, isMuted, currentTrack,
                   trackHistory, lastTrackRef, initialFetch, audio, autoplay,
                   upstream, audioEvent, superseded>>
    /\ Commit(fetches, eventSourceRef, openSources, sseErrored, FALSE)

\* The 5 s interval callback: fetchAndUpdateTrack up to its first await
PollTick ==
    /\ mounted /\ transport = "pull" /\ pollingInterval > 0
    /\ UNCHANGED <<route, icestats, reply, transport, mounted, isPlaying, volume, isMuted, currentTrack,
                   playbackTime, trackHistory, lastTrackRef, initialFetch, audio,
                   autoplay, upstream, audioEvent, superseded>>
    /\ Commit(AddFetch(fetches, NewFetch(currentTrack)), eventSourceRef, openSources,
              sseErrored, FALSE)

\* What a metadata request can come back with: the track on air, the
\* payload of a channel off air, or a failure (network, non-JSON body)
Payloads == Tracks \cup {OffAir}

Failure == None

Responses == {Failure} \cup {Some(data) : data \in Payloads}

\* The endpoint answers with the track on air at that moment
Served(resp) ==
    upstream' = IF resp # Failure /\ ValidPayload(resp[1]) THEN resp ELSE upstream

\* fetchAndUpdateTrack after its awaits, for the fetch f in flight
FetchResponse(f, resp) ==
    /\ mounted /\ transport = "pull" /\ BagIn(f, fetches)
    /\ Served(resp)
    /\ IF resp # Failure
       THEN UpdateTrack(resp[1], f.currentTrack)
       ELSE UNCHANGED <<trackHistory, lastTrackRef, currentTrack, superseded>>
    /\ UNCHANGED <<route, icestats, reply, transport, mounted, isPlaying, volume, isMuted, playbackTime,
                   initialFetch, audio, autoplay, audioEvent>>
    /\ Commit(RemoveFetch(fetches, f), eventSourceRef, openSources, sseErrored,
              resp # Failure /\ IsNewTrack(resp[1]))

\* fetchInitialMetadata after its awaits
InitialFetchResponse(resp) ==
    /\ mounted /\ initialFetch = "pending"
    /\ initialFetch' = "done"
    /\ Served(resp)
    /\ IF resp # Failure /\ ValidPayload(resp[1])
       THEN /\ currentTrack' = resp
            /\ lastTrackRef' = Some(TrackId(resp[1]))
            /\ superseded' = Supersede(resp[1])
       ELSE UNCHANGED <<currentTrack, lastTrackRef, superseded>>
    /\ UNCHANGED <<route, icestats, reply, transport, mounted, isPlaying, volume, isMuted, playbackTime,
                   trackHistory, audio, autoplay, audioEvent>>
    /\ Commit(fetches, eventSourceRef, openSources, sseErrored,
              resp # Failure /\ ValidPayload(resp[1]))

\* eventSource.onmessage; Failure is a message JSON.parse rejects
OnMessage(resp) ==
    /\ mounted /\ transport = "push" /\ eventSourceRef # None
    /\ Served(resp)
    /\ IF resp # Failure
       THEN UpdateTrack(resp[1], eventSourceRef[1].currentTrack)
       ELSE UNCHANGED <<trackHistory, lastTrackRef, currentTrack, superseded>>
    /\ UNCHANGED <<route, icestats, reply, transport, mounted, isPlaying, volume, isMuted, playbackTime,
                   initialFetch, audio, autoplay, audioEvent>>
    /\ Commit(fetches, eventSourceRef, openSources, sseErrored,
              resp # Failure /\ IsNewTrack(resp[1]))

\* eventSource.onerror: eventSource.close(); eventSourceRef.current = null
OnSSEError ==
    /\ mounted /\ transport = "push" /\ eventSourceRef # None
    /\ UNCHANGED <<route, icestats, reply, transport, mounted, isPlaying, volume, isMuted, currentTrack,
                   playbackTime, trackHistory, lastTrackRef, initialFetch, audio,
                   autoplay, upstream, audioEvent, superseded>>
    /\ Commit(fetches, None, Released(openSources), TRUE, FALSE)

\* No status request is being served
ProxyIdle == route = "none" /\ icestats = None /\ reply = None

\* The component is removed: every effect's cleanup runs (clearInterval on
\* the timer and the polling interval, isUnmounted = true, close() on the
\* EventSource the ref holds)
Unmount ==
    /\ mounted
    /\ mounted' = FALSE
    /\ timerRef' = Released(timerRef)
    /\ pollingInterval' = Released(pollingInterval)
    /\ fetches' = MarkUnmounted(fetches)
    /\ eventSourceRef' = None
    /\ openSources' = IF eventSourceRef # None THEN Released(openSources) ELSE openSources
    /\ UNCHANGED <<route, icestats, reply, transport, isPlaying, volume, isMuted, currentTrack, playbackTime,
                   trackHistory, lastTrackRef, initialFetch, audio, audioVolume,
                   autoplay, storage, upstream, audioEvent, sseErrored, superseded>>

----------------------------------------------------------------------------
(* The state after the first render and its effects *)

PlayerInit ==
    /\ transport \in {"pull", "push"}
    /\ \E saved \in StoredValues :
          /\ volume = VolumeInit(saved)
          \* the storage effect runs first; the volume effect throws on a value
          \* the audio element rejects, which unmounts the component
          /\ storage = Some(NumberToString(volume))
          /\ mounted = AudioAccepts(volume)
          /\ audioVolume = IF AudioAccepts(volume) THEN volume ELSE Num(100)
    /\ isPlaying = FALSE
    /\ isMuted = FALSE
    /\ currentTrack = None
    /\ playbackTime = 0
    /\ trackHistory = <<>>
    /\ lastTrackRef = None
    /\ timerRef = 0
    /\ pollingInterval = 0
    /\ openSources = 0
    /\ fetches = EmptyBag
    /\ eventSourceRef = None
    /\ initialFetch = "pending"
    /\ audio = "starting"
    /\ autoplay = "pending"
    /\ upstream = None
    /\ audioEvent = "none"
    /\ sseErrored = FALSE
    /\ superseded = <<>>

Init == PlayerInit /\ ProxyIdle

Next ==
    \/ AudioStarts
    \/ AudioRefuses
    \/ AutoplaySettled
    \/ TogglePlayPause
    \/ OnEnded
    \/ OnError
    \/ ToggleMute
    \/ \E value \in SliderValues : HandleVolumeChange(value)
    \/ Tick
    \/ PollTick
    \/ \E f \in BagToSet(fetches), resp \in Responses : FetchResponse(f, resp)
    \/ \E resp \in Responses : InitialFetchResponse(resp)
    \/ \E resp \in Responses : OnMessage(resp)
    \/ OnSSEError
    \/ Unmount

Spec == Init /\ [][Next]_vars

----------------------------------------------------------------------------
(* The status routes (server side): GET /vapor/status and GET /chip/status *)

\* server_name of the mounts the upstream server may list
ServerNames == {"Vaporwave Radio", "Chiptune Radio", "Other Radio"}

\* An entry of icestats.source
Source(name) == [server_name |-> name, listenurl |-> "http://upstream/" \o name]

\* All sequences over S of length at most n
RECURSIVE SeqsUpTo(_, _)
SeqsUpTo(S, n) ==
    IF n = 0 THEN {<<>>}
    ELSE LET shorter == SeqsUpTo(S, n - 1)
         IN  shorter \cup {Append(q, x) : q \in shorter, x \in S}

\* What status-json.xsl may parse to: no icestats, icestats without source,
\* or icestats with a list of sources
Documents ==
    {None, Some([source |-> None])}
        \cup {Some([source |-> Some(q)]) :
                 q \in SeqsUpTo({Source(nm) : nm \in ServerNames}, MaxSources)}

\* The server_name a route looks for and the listenurl it substitutes
RouteName(r) == IF r = "vapor" THEN "Vaporwave Radio" ELSE "Chiptune Radio"
RouteListenUrl(r) ==
    IF r = "vapor" THEN "https://krelez.ruohki.dev/vapor/stream"
    ELSE "https://krelez.ruohki.dev/chip/stream"

\* Array.prototype.find: the first element that satisfies the test, or undefined
RECURSIVE Find(_, _)
Find(q, name) ==
    IF q = <<>> THEN None
    ELSE IF Head(q).server_name = name THEN Some(Head(q))
    ELSE Find(Tail(q), name)

\* json.icestats?.source
HasSources(doc) == doc # None /\ doc[1].source # None

\* new Response(body, {status})
Response(status, body) == [status |-> status, body |-> body]

\* What a request gets when the handler throws: no Response of the route
Unhandled == [status |-> 500, body |-> "TypeError"]

\* The body of GET: find the entry, assign its listenurl (a TypeError when
\* find returned undefined), answer with the entry; 404 without sources
StatusRoute(r, doc) ==
    IF HasSources(doc)
    THEN LET found == Find(doc[1].source[1], RouteName(r))
         IN  IF found = None
             THEN Unhandled
             ELSE Response(200, [found[1] EXCEPT !.listenurl = RouteListenUrl(r)])
    ELSE Response(404, "No data found")

\* A request arrives and the route has fetched and parsed the upstream document
Request ==
    /\ route \in {"vapor", "chip"} /\ reply # None
    /\ route' \in {"vapor", "chip"}
    /\ icestats' \in Documents
    /\ reply' = None
    /\ UNCHANGED playerVars

\* The route answers
GET ==
    /\ route \in {"vapor", "chip"} /\ reply = None
    /\ reply' = Some(StatusRoute(route, icestats))
    /\ UNCHANGED <<route, icestats>>
    /\ UNCHANGED playerVars

ProxyInit ==
    /\ route \in {"vapor", "chip"}
    /\ icestats \in Documents
    /\ reply = None
    /\ PlayerInit

ProxyNext == Request \/ GET

ProxySpec == ProxyInit /\ [][ProxyNext]_vars

----------------------------------------------------------------------------
(* The change detector on a broadcast whose artists and titles contain "-" *)

\* Tracks of such a broadcast
HyphenTracks == {Track("a-b", "c"), Track("a", "b-c"), Track("a", "x")}

\* The player is Playing (autoplay was allowed, the initial fetch failed):
\* the subscription and the timer are live and no track was seen yet
DetectorInit ==
    /\ transport \in {"pull", "push"}
    /\ mounted = TRUE
    /\ isPlaying = TRUE
    /\ volume = DefaultVolume
    /\ isMuted = FALSE
    /\ currentTrack = None
    /\ playbackTime = 0
    /\ trackHistory = <<>>
    /\ lastTrackRef = None
    /\ timerRef = 1
    /\ pollingInterval = IF transport = "pull" THEN 1 ELSE 0
    /\ openSources = IF transport = "push" THEN 1 ELSE 0
    /\ fetches = IF transport = "pull" THEN SetToBag({NewFetch(None)}) ELSE EmptyBag
    /\ eventSourceRef = IF transport = "push" THEN Some([currentTrack |-> None]) ELSE None
    /\ initialFetch = "done"
    /\ audio = "playing"
    /\ audioVolume = DefaultVolume
    /\ autoplay = "done"
    /\ storage = Some(NumberToString(DefaultVolume))
    /\ upstream = None
    /\ audioEvent = "none"
    /\ sseErrored = FALSE
    /\ superseded = <<>>
    /\ ProxyIdle

DetectorNext ==
    \/ PollTick
    \/ \E f \in BagToSet(fetches), data \in HyphenTracks : FetchResponse(f, Some(data))
    \/ \E data \in HyphenTracks : OnMessage(Some(data))

DetectorSpec == DetectorInit /\ [][DetectorNext]_vars

----------------------------------------------------------------------------
(* The pull player against a broadcast that changes track on its own *)

\* The broadcast moves on to track t
UpstreamChange(t) ==
    /\ upstream # Some(t)
    /\ upstream' = Some(t)
    /\ UNCHANGED <<route, icestats, reply, transport, mounted, isPlaying, volume,
                   isMuted, currentTrack, playbackTime, trackHistory, lastTrackRef,
                   timerRef, pollingInterval, openSources, fetches, eventSourceRef,
                   initialFetch, audio, audioVolume, autoplay, storage, audioEvent,
                   sseErrored, superseded>>

\* What GET {endpoint}/metadata answers at this moment
Answer == IF upstream = None THEN Some(OffAir) ELSE upstream

\* A poll fetch comes back with the track on air
PollSuccess == \E f \in BagToSet(fetches) : FetchResponse(f, Answer)

\* A poll fetch fails
PollFailure == \E f \in BagToSet(fetches) : FetchResponse(f, Failure)

PollDelivery == PollSuccess \/ PollFailure

PollInit == Init /\ transport = "pull" /\ volume = DefaultVolume

PollNext ==
    \/ AudioStarts
    \/ AudioRefuses
    \/ AutoplaySettled
    \/ TogglePlayPause
    \/ StopHandler
    \/ PollTick
    \/ PollDelivery
    \/ \E resp \in {Answer, Failure} : InitialFetchResponse(resp)
    \/ \E t \in Tracks : UpstreamChange(t)

\* The 5 s interval keeps firing and every request gets some response
PollFairSpec ==
    /\ PollInit /\ [][PollNext]_vars
    /\ WF_vars(PollTick)
    /\ WF_vars(PollDelivery)

----------------------------------------------------------------------------
(* Derived notions *)

\* The playback status is Playing
Playing == isPlaying

\* Number of live subscription handles (poll timers and open push channels)
LiveHandles == pollingInterval + openSources

\* A poll response or push message resp goes through the change detector
DetectorDelivers(resp) ==
    \/ \E f \in BagToSet(fetches) : FetchResponse(f, resp)
    \/ OnMessage(resp)

----------------------------------------------------------------------------
(* Claims *)

\* C1 (as stated): in every reachable state exactly one subscription handle
\* is live if and only if the status is Playing, on both transports, also
\* after transport errors.
C1_HandleIffPlaying ==
    mounted => ((LiveHandles = 1) <=> Playing)

\* C1 (amended): a handle is live only while the status is Playing and never
\* more than one; while Playing exactly one is live, except on the push
\* transport after onerror closed the channel and before the subscription
\* effect ran again.
C1_HandleWhilePlaying ==
    mounted =>
        /\ LiveHandles <= 1
        /\ (LiveHandles = 1 => Playing)
        /\ (Playing /\ LiveHandles = 0 => transport = "push" /\ sseErrored)
        /\ (transport = "pull" => ((pollingInterval = 1) <=> Playing))

\* C1 witness: Playing on the push transport with the channel closed by a
\* transport error
C1_Witness ==
    mounted /\ transport = "push" /\ Playing /\ LiveHandles = 0 /\ sseErrored

\* C2: when the audio element refuses play(), the player ends Idle with no
\* subscription and no elapsed-time tick.
C2_RejectedPlayEndsIdle ==
    mounted /\ audioEvent = "refused" /\ autoplay = "done" =>
        ~Playing /\ LiveHandles = 0 /\ timerRef = 0

\* C3: the status is Playing only once the audio element has started and has
\* not since been paused, ended or errored.
C3_PlayingOnlyAfterStart ==
    mounted /\ Playing => audio = "playing"

\* C4: once a new handle exists, the response of a fetch whose handle was
\* unsubscribed changes neither currentTrack nor the history nor the
\* last-seen track id.
C4_StaleResponseIgnored ==
    [][\A f \in BagToSet(fetches), resp \in Responses :
          f.isUnmounted /\ pollingInterval = 1 /\ FetchResponse(f, resp) =>
              UNCHANGED <<currentTrack, trackHistory, lastTrackRef>>]_vars

\* C5: whenever the history changes, the entry prepended is the track that
\* was currentTrack immediately before that step.
C5_ArchivesPreviousCurrent ==
    [][trackHistory' # trackHistory =>
          /\ currentTrack # None
          /\ trackHistory' = Archive(currentTrack[1], trackHistory)]_vars

\* C6: after at least 4 track transitions the history is exactly the 3 most
\* recently superseded tracks, most recent first.
C6_HistoryIsLastSuperseded ==
    Len(superseded) >= HistoryCapacity + 1 =>
        trackHistory = [i \in 1..HistoryCapacity |-> Entry(superseded[i])]

\* C7: a payload handed to the change detector when the last-seen id is
\* already its id (every repeat of the payload delivered before it) changes
\* neither currentTrack nor the last-seen id nor the history; the first
\* payload of an empty player sets currentTrack and the last-seen id and
\* leaves the history empty.
C7_IdempotentDetection ==
    [][\A data \in Tracks :
          DetectorDelivers(Some(data)) =>
              /\ lastTrackRef = Some(TrackId(data)) =>
                    UNCHANGED <<currentTrack, lastTrackRef, trackHistory>>
              /\ currentTrack = None /\ lastTrackRef = None =>
                    /\ currentTrack' = Some(data)
                    /\ lastTrackRef' = Some(TrackId(data))
                    /\ trackHistory' = <<>>]_vars

\* C7 witness: the detector has set currentTrack from its first payload (the
\* initial fetch is still out), the history is empty, and the next poll
\* response is in flight while the endpoint still reports that track
C7_Witness ==
    /\ mounted /\ transport = "pull" /\ initialFetch = "pending"
    /\ currentTrack # None /\ upstream = currentTrack
    /\ lastTrackRef = Some(TrackId(currentTrack[1]))
    /\ trackHistory = <<>>
    /\ BagIn(NewFetch(currentTrack), fetches)

\* C8: pause() leaves elapsed time, currentTrack and history as they were and
\* releases the subscription and the tick; play() keeps the elapsed time and
\* starts the tick again, which adds 1 to the preserved value.
C8_PausePreservesElapsed ==
    [][/\ TogglePlayPause =>
             /\ playbackTime' = playbackTime
             /\ currentTrack' = currentTrack
             /\ trackHistory' = trackHistory
             /\ Playing => LiveHandles' = 0 /\ eventSourceRef' = None /\ timerRef' = 0
             /\ ~Playing => timerRef' = 1
       /\ Tick => Playing /\ playbackTime' = playbackTime + 1]_vars

\* C8 witness: paused by the user with elapsed time, track and history kept
C8_Witness ==
    /\ mounted /\ ~Playing /\ audio = "stopped" /\ audioEvent = "none"
    /\ autoplay = "done" /\ playbackTime > 0 /\ LiveHandles = 0 /\ timerRef = 0
    /\ currentTrack # None /\ trackHistory # <<>>

\* C9: an ended or error event of the audio element resets the elapsed time
\* to 0, leaves Playing with the audio stopped, releases the subscription and
\* the tick, and leaves currentTrack and history as they were.
C9_EndResetsElapsed ==
    [][OnEnded \/ OnError =>
          /\ playbackTime' = 0
          /\ ~Playing' /\ audio' = "stopped"
          /\ LiveHandles' = 0 /\ eventSourceRef' = None /\ timerRef' = 0
          /\ currentTrack' = currentTrack
          /\ trackHistory' = trackHistory]_vars

\* C9 witness: the stream ended after time had elapsed with a track and a
\* history on display
C9_Witness ==
    /\ mounted /\ audioEvent = "ended" /\ ~Playing /\ playbackTime = 0
    /\ LiveHandles = 0 /\ currentTrack # None /\ trackHistory # <<>>

\* C10: the volume applied to the audio element is 0 when muted and the
\* volume otherwise, and toggleMute changes neither the volume nor its
\* persisted value.
C10_MuteKeepsVolume ==
    /\ [](mounted => audioVolume = OutputVolume(isMuted, volume))
    /\ [][ToggleMute => volume' = volume /\ storage' = storage]_vars

\* C10 witness: muted after the volume was set to 0.4
C10_Witness ==
    /\ mounted /\ isMuted /\ volume = Num(40) /\ audioVolume = Num(0)
    /\ storage = Some("0.4")

\* C11: on the pull transport a failed fetch leaves the poll timer running
\* and the status as it was, and while the status is Playing the timer is
\* live and its next tick issues another fetch, however many fetches failed.
C11_FailureKeepsPolling ==
    /\ [](mounted /\ transport = "pull" /\ Playing =>
            /\ pollingInterval = 1
            /\ BagCardinality(fetches) < MaxFetch => ENABLED PollTick)
    /\ [][\A f \in BagToSet(fetches) :
            FetchResponse(f, Failure) =>
                /\ pollingInterval' = pollingInterval
                /\ isPlaying' = isPlaying
                /\ currentTrack' = currentTrack]_vars

\* C11 witness: still Playing with the poll timer live after the initial
\* fetch and every poll so far came back without a track
C11_Witness ==
    /\ mounted /\ transport = "pull" /\ Playing /\ pollingInterval = 1
    /\ initialFetch = "done" /\ fetches = EmptyBag
    /\ upstream = None /\ currentTrack = None /\ playbackTime > 0

\* C12: on the push transport, once a transport error has closed the channel
\* while the status is Playing, no step other than an explicit play opens a
\* push channel; as long as the status stays Playing none is open.
C12_NoReconnect ==
    [][mounted /\ transport = "push" /\ sseErrored /\ Playing /\ Playing' =>
          openSources' = 0 /\ eventSourceRef' = None]_vars

\* C13: the handles that are live are exactly the ones the player still
\* holds (never a negative or leaked count), a poll tick or a push message
\* only comes from a live handle, a fetch is only issued by a handle that is
\* live afterwards, and a release (pause, end/error, unmount) when the
\* handle was already released leaves no handle and issues no fetch.
C13_ReleasedHandleSilent ==
    /\ [](/\ pollingInterval \in {0, 1} /\ openSources \in {0, 1}
          /\ (eventSourceRef # None <=> openSources = 1)
          /\ (~mounted \/ ~Playing => LiveHandles = 0))
    /\ [][/\ PollTick => pollingInterval = 1
          /\ (\E resp \in Responses : OnMessage(resp)) => openSources = 1
          /\ BagCardinality(fetches') > BagCardinality(fetches) => pollingInterval' = 1
          /\ LiveHandles = 0 /\ (TogglePlayPause \/ StopHandler \/ Unmount) /\ ~Playing' =>
                /\ LiveHandles' = 0 /\ eventSourceRef' = None
                /\ BagCardinality(fetches') = BagCardinality(fetches)]_vars

\* C13 witness: the component was unmounted while paused, after its handle
\* had been released by the pause, with a fetch of that handle still out
C13_Witness ==
    /\ ~mounted /\ AudioAccepts(volume) /\ ~Playing /\ audioEvent = "none"
    /\ autoplay = "done" /\ LiveHandles = 0 /\ timerRef = 0
    /\ \E f \in BagToSet(fetches) : f.isUnmounted

\* C14: a status request whose upstream document lists sources of which none
\* carries the route's channel name is answered 404 with a body that holds
\* no entry; one whose document lists a matching entry is answered 200 with
\* that entry.
C14_MissingChannelIs404 ==
    route # "none" /\ reply # None /\ HasSources(icestats) =>
        IF Find(icestats[1].source[1], RouteName(route)) = None
        THEN reply[1].status = 404 /\ reply[1].body = "No data found"
        ELSE /\ reply[1].status = 200
             /\ reply[1].body.server_name = RouteName(route)

\* C15: the volume the player starts with, whatever the storage key held, is
\* a number in [0,1]; it is 0.7 when the key was absent or unparseable, and
\* the text of an unparseable value ("NaN") is never written to storage.
C15_VolumeInRange ==
    /\ ~volume.nan /\ volume.v >= 0 /\ volume.v <= 100
    /\ storage # Some("NaN")

\* C16: the elapsed time changes only by a tick adding 1 while the status is
\* Playing or by an end/error event setting it to 0; a tick timer exists
\* exactly while the component is mounted and Playing, and never two.
C16_ElapsedOnlyTicks ==
    /\ [](/\ timerRef \in {0, 1}
          /\ (timerRef = 1 <=> mounted /\ Playing))
    /\ [][/\ Tick => timerRef = 1 /\ Playing /\ playbackTime' = playbackTime + 1
          /\ playbackTime' # playbackTime =>
                \/ Tick
                \/ (OnEnded \/ OnError) /\ playbackTime' = 0]_vars

\* C16 witness: paused with elapsed time on the clock and no tick timer
C16_Witness ==
    /\ mounted /\ ~Playing /\ timerRef = 0 /\ playbackTime = MaxTime
    /\ audio = "stopped" /\ audioEvent = "none"

\* C17: in every reachable state there is at most one poll timer and at most
\* one open push channel, and never both.
C17_AtMostOneHandle ==
    /\ pollingInterval <= 1
    /\ openSources <= 1
    /\ pollingInterval + openSources <= 1

\* C17 witness: still one handle after the subscription effect ran again
\* for a track change while playing (the archived track shows the change)
C17_Witness ==
    /\ mounted /\ Playing /\ LiveHandles = 1 /\ trackHistory # <<>>
    /\ currentTrack # None /\ Len(superseded) >= 2

\* C18: while the status stays Playing, a poll response or push message that
\* the detector takes as a track change issues no fetch and orphans none
\* (the poll timer is not restarted) and leaves the open push channel the
\* one it was.
C18_TrackChangeKeepsHandle ==
    [][\A resp \in Responses :
          /\ Playing /\ Playing'
          /\ resp # Failure /\ IsNewTrack(resp[1])
          /\ DetectorDelivers(resp)
          => /\ fetches' \sqsubseteq fetches
             /\ eventSourceRef' = eventSourceRef]_vars

\* C19: a failed or unparseable metadata response or message, a payload
\* without artist, and a transport error of the push channel each leave
\* currentTrack, the history, the last-seen id, the status, the elapsed
\* time, the volume and the mute flag unchanged; an unparseable or invalid
\* push message also leaves the channel open.
C19_FailureChangesNothing ==
    [][\A resp \in {Failure, Some(OffAir)} :
          /\ DetectorDelivers(resp) \/ InitialFetchResponse(resp) \/ OnSSEError =>
                UNCHANGED <<currentTrack, trackHistory, lastTrackRef, isPlaying,
                            playbackTime, volume, isMuted>>
          /\ OnMessage(resp) =>
                UNCHANGED <<eventSourceRef, openSources>>]_vars

\* C19 witness: the push player is Playing with its channel open and still
\* without a track after the initial fetch came back without one
C19_Witness ==
    /\ mounted /\ transport = "push" /\ Playing /\ openSources = 1
    /\ initialFetch = "done" /\ upstream = None
    /\ currentTrack = None /\ lastTrackRef = None /\ trackHistory = <<>>

\* C20: a payload delivered to the detector is treated as the track on
\* display exactly when artist and title are both equal: one that differs
\* in artist or title becomes currentTrack, one that is equal changes
\* nothing.
C20_IdentityInjective ==
    [][\A data \in HyphenTracks :
          DetectorDelivers(Some(data)) /\ currentTrack # None =>
              IF currentTrack[1] = data
              THEN UNCHANGED <<currentTrack, trackHistory>>
              ELSE currentTrack' = Some(data)]_vars

C22_RequestsOnlyWhilePlaying ==
    mounted /\ ~Playing =>
        /\ initialFetch # "pending"
        /\ \A f \in BagToSet(fetches) : f.isUnmounted
        /\ eventSourceRef = None

\* C23: the history never holds more than 3 entries, and whenever it changes
\* one entry was put at its head, the entries behind it are the previous
\* ones in their previous order, and only the oldest was dropped, and only
\* when the history was full.
C23_HistoryBounded ==
    /\ [](Len(trackHistory) <= HistoryCapacity)
    /\ [][trackHistory' # trackHistory =>
            /\ Len(trackHistory') =
                   IF Len(trackHistory) < HistoryCapacity
                   THEN Len(trackHistory) + 1 ELSE HistoryCapacity
            /\ Tail(trackHistory') = SubSeq(trackHistory, 1, Len(trackHistory') - 1)]_vars

\* C23 witness: a full history after a fourth track was archived, so that
\* the oldest entry was dropped
C23_Witness ==
    /\ Len(trackHistory) = HistoryCapacity /\ Len(superseded) > HistoryCapacity
    /\ trackHistory[1] # trackHistory[2]

\* C24: in every reachable state the last-seen track id is the id of
\* currentTrack when a track is set, and is unset when none is.
C24_RefMatchesCurrent ==
    IF currentTrack = None
    THEN lastTrackRef = None
    ELSE lastTrackRef = Some(TrackId(currentTrack[1]))

\* C24 witness: the initial fetch, poll responses or push messages have set
\* and replaced the track, the last one after the initial fetch
C24_Witness ==
    /\ mounted /\ initialFetch = "done" /\ currentTrack # None
    /\ Len(superseded) >= 2 /\ Len(trackHistory) >= 2
    /\ lastTrackRef = Some(TrackId(currentTrack[1]))

\* C25: when the mount-time autoplay attempt settles after the user has
\* toggled play/pause, the status it leaves agrees with the audio element:
\* Playing exactly when playback was requested and not since paused, ended
\* or refused.
C25_LateAutoplayKeepsStatus ==
    [][AutoplaySettled => (Playing' <=> audio' # "stopped")]_vars

\* C26: whenever a step replaces currentTrack by a different track, the same
\* step puts the replaced track at the head of the history, whether the
\* step is the initial fetch response, a poll response or a push message.
C26_ReplacedTrackArchived ==
    [][currentTrack # None /\ currentTrack' # None /\ currentTrack'[1] # currentTrack[1] =>
          /\ trackHistory' # <<>>
          /\ trackHistory'[1] = Entry(currentTrack[1])
          /\ Tail(trackHistory') = SubSeq(trackHistory, 1, Len(trackHistory') - 1)]_vars

=============================================================================
